---- MODULE Spec2Model ----
(***************************************************************************)
(* STS credential providers of rusoto_sts (custom/credential.rs).          *)
(*                                                                         *)
(* Three providers wrap an Sts client.  A call of a provider method builds *)
(* one request from the provider's fields, hands it to the client and      *)
(* suspends; when the client answers, the method maps the answer and       *)
(* returns.  The model keeps, per provider, its constructor arguments, its *)
(* fields, and what its client has received and not yet answered, plus the *)
(* value most recently returned to a caller.                               *)
(***************************************************************************)
EXTENDS Integers, Sequences, FiniteSets, TLC

VARIABLES
    ctor,        \* provider -> the arguments its `new` was called with
    self,        \* provider -> the fields of the provider struct
    sts_client,  \* provider -> its boxed client: requests received / unanswered
    mfa_history, \* provider -> argument of the latest set_mfa_code not yet cleared
    invoked,     \* provider -> number of provider method invocations started
    returned     \* the value most recently returned to a caller (None at start)

vars == <<ctor, self, sts_client, mfa_history, invoked, returned>>

(***************************************************************************)
(* Bounds and input domains                                                *)
(***************************************************************************)
MaxCalls == 2

SessionProviders == {"session"}
AssumeRoleProviders == {"assume_role"}
WebIdentityProviders == {"web_identity"}
Providers == SessionProviders \cup AssumeRoleProviders \cup WebIdentityProviders
MfaProviders == SessionProviders \cup AssumeRoleProviders

MfaCodes == {"123456", "654321"}

(***************************************************************************)
(* Option and Result                                                       *)
(***************************************************************************)
None == <<>>
Some(x) == <<x>>
IsSome(o) == o # None
Unwrap(o) == o[1]

Ok(v) == [ok |-> TRUE, value |-> v]
Err(e) == [ok |-> FALSE, error |-> e]

(***************************************************************************)
(* chrono::Duration, held in milliseconds                                  *)
(***************************************************************************)
Duration_seconds(s) == s * 1000

\* Duration::num_seconds: whole seconds, rounding toward zero
num_seconds(d) == IF d >= 0 THEN d \div 1000 ELSE -((-d) \div 1000)

DEFAULT_DURATION_SECONDS == 3600
DEFAULT_ROLE_DURATION_SECONDS == 900

(***************************************************************************)
(* Errors                                                                  *)
(***************************************************************************)
\* CredentialsError::new(message)
CredentialsError_new(message) == [message |-> message]

\* From<CredentialsError> for RusotoError<E>, applied by `?`
RusotoError_from_CredentialsError(e) == [variant |-> "Credentials", payload |-> e.message]

\* {:?} of a RusotoError<E>; payload of Service / HttpDispatch is already the
\* Debug text of the inner value
RusotoError_fmt_debug(e) ==
    IF e.variant = "Credentials"
    THEN "Credentials(CredentialsError { message: \"" \o e.payload \o "\" })"
    ELSE e.variant \o "(" \o e.payload \o ")"

\* errors the remote call can answer with
RemoteErrors ==
    { [variant |-> "Service", payload |-> "RegionDisabled(\"STS is not activated\")"],
      [variant |-> "HttpDispatch", payload |-> "HttpDispatchError { message: \"timed out\" }"] }

(***************************************************************************)
(* Credential converter                                                    *)
(***************************************************************************)
\* str::parse::<DateTime<Utc>>() on the expiration strings of the model:
\* the instant in seconds since the epoch, or chrono's ParseError text
ParseDateTimeUtc(s) ==
    CASE s = "2020-01-01T00:00:00Z"      -> Ok(1577836800)
      [] s = "2020-01-01T01:00:00+01:00" -> Ok(1577836800)
      [] s = ""                          -> Err("premature end of input")
      [] OTHER                           -> Err("input contains invalid characters")

\* AwsCredentials::new(key, secret, token, expires_at): claims start empty
AwsCredentials_new(key, secret, token, expires_at) ==
    [key |-> key, secret |-> secret, token |-> token,
     expires_at |-> expires_at, claims |-> <<>>]

\* variant: a parse failure is dropped (.ok()) instead of returned (?)
new_for_credentials_drops_expiry(sts_creds) ==
    LET parsed == ParseDateTimeUtc(sts_creds.expiration)
    IN  Ok(AwsCredentials_new(sts_creds.access_key_id,
                              sts_creds.secret_access_key,
                              Some(sts_creds.session_token),
                              IF parsed.ok THEN Some(parsed.value) ELSE None))

new_for_credentials(sts_creds) ==
    LET parsed == ParseDateTimeUtc(sts_creds.expiration)
    IN  IF ~parsed.ok
        THEN Err(CredentialsError_new(parsed.error))
        ELSE Ok(AwsCredentials_new(sts_creds.access_key_id,
                                   sts_creds.secret_access_key,
                                   Some(sts_creds.session_token),
                                   Some(parsed.value)))

(***************************************************************************)
(* Constructor arguments the model draws from                              *)
(***************************************************************************)
\* new(.., None, ..): every optional argument left out
DefaultArgs(p) ==
    IF p \in SessionProviders
    THEN [duration |-> None, mfa_serial |-> None]
    ELSE IF p \in AssumeRoleProviders
    THEN [role_arn |-> "arn:aws:iam::123:role/r", session_name |-> "sess",
          external_id |-> None, session_duration |-> None,
          scope_down_policy |-> None, mfa_serial |-> None]
    ELSE [wif_token |-> "oidc-token", wif_provider |-> None,
          role_arn |-> "arn:aws:iam::123:role/w", session_name |-> "web",
          session_duration |-> None, scope_down_policy |-> None]

\* every optional argument given; durations in milliseconds, none of them a
\* whole number of seconds
ExplicitArgs(p) ==
    IF p \in SessionProviders
    THEN [duration |-> Some(1500), mfa_serial |-> Some("arn:aws:iam::123:mfa/user")]
    ELSE IF p \in AssumeRoleProviders
    THEN [role_arn |-> "arn:aws:iam::123:role/r", session_name |-> "sess",
          external_id |-> Some("ext"), session_duration |-> Some(0 - 2500),
          scope_down_policy |-> Some("{}"), mfa_serial |-> Some("GAHT12345678")]
    ELSE [wif_token |-> "oidc-token", wif_provider |-> Some("www.amazon.com"),
          role_arn |-> "arn:aws:iam::123:role/w", session_name |-> "web",
          session_duration |-> Some(7200999), scope_down_policy |-> Some("{}")]

(***************************************************************************)
(* Constructors                                                            *)
(***************************************************************************)
unwrap_or_else(opt, default) == IF opt = None THEN default ELSE Unwrap(opt)

\* a freshly boxed client: nothing received, nothing unanswered
Box_new_client == [calls |-> 0, awaiting |-> {}]

StsSessionCredentialsProvider_new(duration, mfa_serial) ==
    [session_duration |-> unwrap_or_else(duration, Duration_seconds(DEFAULT_DURATION_SECONDS)),
     mfa_serial |-> mfa_serial,
     mfa_code |-> None]

\* variant: the default the constructor's comment names (one hour)
StsAssumeRoleSessionCredentialsProvider_new_one_hour(role_arn, session_name, external_id, session_duration, scope_down_policy, mfa_serial) ==
    [role_arn |-> role_arn,
     session_name |-> session_name,
     external_id |-> external_id,
     session_duration |-> unwrap_or_else(session_duration,
                                         Duration_seconds(DEFAULT_DURATION_SECONDS)),
     scope_down_policy |-> scope_down_policy,
     mfa_serial |-> mfa_serial,
     mfa_code |-> None]

StsAssumeRoleSessionCredentialsProvider_new(role_arn, session_name, external_id, session_duration, scope_down_policy, mfa_serial) ==
    [role_arn |-> role_arn,
     session_name |-> session_name,
     external_id |-> external_id,
     session_duration |-> unwrap_or_else(session_duration,
                                         Duration_seconds(DEFAULT_ROLE_DURATION_SECONDS)),
     scope_down_policy |-> scope_down_policy,
     mfa_serial |-> mfa_serial,
     mfa_code |-> None]

StsWebIdentityFederationSessionCredentialsProvider_new(wif_token, wif_provider, role_arn, session_name, session_duration, scope_down_policy) ==
    [wif_token |-> wif_token,
     wif_provider |-> wif_provider,
     role_arn |-> role_arn,
     session_name |-> session_name,
     session_duration |-> unwrap_or_else(session_duration,
                                         Duration_seconds(DEFAULT_DURATION_SECONDS)),
     scope_down_policy |-> scope_down_policy]

\* the struct `new` builds from the arguments a
Construct(p, a) ==
    IF p \in SessionProviders
    THEN StsSessionCredentialsProvider_new(a.duration, a.mfa_serial)
    ELSE IF p \in AssumeRoleProviders
    THEN StsAssumeRoleSessionCredentialsProvider_new(a.role_arn, a.session_name,
             a.external_id, a.session_duration, a.scope_down_policy, a.mfa_serial)
    ELSE StsWebIdentityFederationSessionCredentialsProvider_new(a.wif_token,
             a.wif_provider, a.role_arn, a.session_name, a.session_duration,
             a.scope_down_policy)

Init ==
    /\ ctor \in { [p \in Providers |-> DefaultArgs(p)], [p \in Providers |-> ExplicitArgs(p)] }
    /\ self = [p \in Providers |-> Construct(p, ctor[p])]
    /\ sts_client = [p \in Providers |-> Box_new_client]
    /\ mfa_history = [p \in MfaProviders |-> None]
    /\ invoked = [p \in Providers |-> 0]
    /\ returned = None

(***************************************************************************)
(* Requests                                                                *)
(***************************************************************************)
\* variant: the code is sent only together with a serial
get_session_token_request_code_needs_serial(s) ==
    [serial_number |-> s.mfa_serial,
     token_code |-> IF s.mfa_serial = None THEN None ELSE s.mfa_code,
     duration_seconds |-> Some(num_seconds(s.session_duration))]

\* GetSessionTokenRequest built by get_session_token
get_session_token_request(s) ==
    [serial_number |-> s.mfa_serial,
     token_code |-> s.mfa_code,
     duration_seconds |-> Some(num_seconds(s.session_duration))]

\* AssumeRoleRequest built by assume_role; the fields left to
\* Default::default() are None
assume_role_request(s) ==
    [role_arn |-> s.role_arn,
     role_session_name |-> s.session_name,
     duration_seconds |-> Some(num_seconds(s.session_duration)),
     external_id |-> s.external_id,
     policy |-> s.scope_down_policy,
     serial_number |-> s.mfa_serial,
     token_code |-> s.mfa_code,
     policy_arns |-> None,
     tags |-> None,
     transitive_tag_keys |-> None]

\* AssumeRoleWithWebIdentityRequest built by assume_role_with_web_identity
assume_role_with_web_identity_request(s) ==
    [web_identity_token |-> s.wif_token,
     provider_id |-> s.wif_provider,
     role_arn |-> s.role_arn,
     role_session_name |-> s.session_name,
     duration_seconds |-> Some(num_seconds(s.session_duration)),
     policy |-> s.scope_down_policy,
     policy_arns |-> None]

(***************************************************************************)
(* Responses the remote service can give                                   *)
(***************************************************************************)
\* generated::Credentials records
StsCredentials ==
    { [access_key_id |-> "AKIA1", secret_access_key |-> "secret1",
       session_token |-> "token1", expiration |-> e] :
         e \in {"2020-01-01T01:00:00+01:00", "not-a-date"} }
    \cup
    { [access_key_id |-> "AKIA2", secret_access_key |-> "secret2",
       session_token |-> "token2", expiration |-> e] :
         e \in {"2020-01-01T00:00:00Z", ""} }

WebStsCredentials ==
    { c \in StsCredentials : c.expiration \in {"2020-01-01T01:00:00+01:00", "not-a-date"} }

OptionOf(S) == {None} \cup { Some(x) : x \in S }

GetSessionTokenResponses == { [credentials |-> c] : c \in OptionOf(StsCredentials) }

AssumeRoleResponses == { [credentials |-> c] : c \in OptionOf(StsCredentials) }

\* every combination of the identity fields with convertible credentials;
\* none or all of them with missing or unconvertible credentials
AssumeRoleWithWebIdentityResponses ==
    { r \in [credentials : OptionOf(WebStsCredentials),
             subject_from_web_identity_token : OptionOf({"user1"}),
             audience : OptionOf({"aud1"}),
             provider : OptionOf({"https://idp"})] :
        \/ /\ r.credentials # None
           /\ ParseDateTimeUtc(Unwrap(r.credentials).expiration).ok
        \/ /\ r.subject_from_web_identity_token = None <=> r.audience = None
           /\ r.audience = None <=> r.provider = None }

\* what a remote call can resolve to
ResultsOf(Responses) == { Ok(r) : r \in Responses } \cup { Err(e) : e \in RemoteErrors }

(***************************************************************************)
(* Mapping of the remote result by each provider method                    *)
(***************************************************************************)
claims_SUBJECT == "subject"
claims_AUDIENCE == "audience"
claims_ISSUER == "issuer"

\* HashMap::insert
insert(m, k, v) == [x \in (DOMAIN m) \cup {k} |-> IF x = k THEN v ELSE m[x]]

\* get_session_token hands the client's result back as it is
get_session_token(r) == r

\* variant: a response without credentials gives default credentials
\* (unwrap_or_default) instead of an error
StsSessionCredentialsProvider_credentials_default_on_missing(r) ==
    IF ~r.ok
    THEN Err(CredentialsError_new("StsProvider get_session_token error: "
                                  \o RusotoError_fmt_debug(r.error)))
    ELSE IF r.value.credentials = None
    THEN Ok(AwsCredentials_new("", "", None, None))
    ELSE new_for_credentials(Unwrap(r.value.credentials))

\* ProvideAwsCredentials::credentials of the session provider; r is the result
\* of get_session_token
StsSessionCredentialsProvider_credentials(r) ==
    IF ~r.ok
    THEN Err(CredentialsError_new("StsProvider get_session_token error: "
                                  \o RusotoError_fmt_debug(r.error)))
    ELSE IF r.value.credentials = None
    THEN Err(CredentialsError_new("no credentials in response"))
    ELSE new_for_credentials(Unwrap(r.value.credentials))

\* variant: the remote error is wrapped with context at this level already
assume_role_wraps_remote_error(r) ==
    IF ~r.ok
    THEN Err(RusotoError_from_CredentialsError(CredentialsError_new(
                "StsProvider get_session_token error: " \o RusotoError_fmt_debug(r.error))))
    ELSE IF r.value.credentials = None
    THEN Err(RusotoError_from_CredentialsError(CredentialsError_new("no credentials in response")))
    ELSE LET converted == new_for_credentials(Unwrap(r.value.credentials))
         IN  IF converted.ok
             THEN Ok(converted.value)
             ELSE Err(RusotoError_from_CredentialsError(converted.error))

\* assume_role after the client has answered with r
assume_role(r) ==
    IF ~r.ok
    THEN Err(r.error)
    ELSE IF r.value.credentials = None
    THEN Err(RusotoError_from_CredentialsError(CredentialsError_new("no credentials in response")))
    ELSE LET converted == new_for_credentials(Unwrap(r.value.credentials))
         IN  IF converted.ok
             THEN Ok(converted.value)
             ELSE Err(RusotoError_from_CredentialsError(converted.error))

\* ProvideAwsCredentials::credentials of the assume-role provider; r is the
\* result of assume_role
StsAssumeRoleSessionCredentialsProvider_credentials(r) ==
    IF r.ok
    THEN r
    ELSE Err(CredentialsError_new("StsProvider get_session_token error: "
                                  \o RusotoError_fmt_debug(r.error)))

\* variant: the three `if let` are nested instead of in sequence
assume_role_with_web_identity_nested_claims(r) ==
    IF ~r.ok
    THEN Err(r.error)
    ELSE IF r.value.credentials = None
    THEN Err(RusotoError_from_CredentialsError(CredentialsError_new("no credentials in response")))
    ELSE LET resp == r.value
             converted == new_for_credentials(Unwrap(resp.credentials))
             c0 == converted.value.claims
             c1 == insert(c0, claims_SUBJECT, Unwrap(resp.subject_from_web_identity_token))
             c2 == IF IsSome(resp.audience)
                   THEN insert(c1, claims_AUDIENCE, Unwrap(resp.audience))
                   ELSE c1
             c3 == IF IsSome(resp.audience) /\ IsSome(resp.provider)
                   THEN insert(c2, claims_ISSUER, Unwrap(resp.provider))
                   ELSE c2
         IN  IF ~converted.ok
             THEN Err(RusotoError_from_CredentialsError(converted.error))
             ELSE IF IsSome(resp.subject_from_web_identity_token)
             THEN Ok([converted.value EXCEPT !.claims = c3])
             ELSE Ok(converted.value)

\* assume_role_with_web_identity after the client has answered with r
assume_role_with_web_identity(r) ==
    IF ~r.ok
    THEN Err(r.error)
    ELSE IF r.value.credentials = None
    THEN Err(RusotoError_from_CredentialsError(CredentialsError_new("no credentials in response")))
    ELSE LET resp == r.value
             converted == new_for_credentials(Unwrap(resp.credentials))
             c0 == converted.value.claims
             c1 == IF IsSome(resp.subject_from_web_identity_token)
                   THEN insert(c0, claims_SUBJECT, Unwrap(resp.subject_from_web_identity_token))
                   ELSE c0
             c2 == IF IsSome(resp.audience)
                   THEN insert(c1, claims_AUDIENCE, Unwrap(resp.audience))
                   ELSE c1
             c3 == IF IsSome(resp.provider)
                   THEN insert(c2, claims_ISSUER, Unwrap(resp.provider))
                   ELSE c2
         IN  IF ~converted.ok
             THEN Err(RusotoError_from_CredentialsError(converted.error))
             ELSE Ok([converted.value EXCEPT !.claims = c3])

\* the impl blocks of ProvideAwsCredentials in this file
ProvideAwsCredentials == SessionProviders \cup AssumeRoleProviders

(***************************************************************************)
(* The client                                                              *)
(***************************************************************************)
\* number of provider method invocations started so far, over all providers
RECURSIVE SumOver(_, _)
SumOver(f, S) == IF S = {} THEN 0
                 ELSE LET x == CHOOSE y \in S : TRUE IN f[x] + SumOver(f, S \ {x})

Started == SumOver(invoked, Providers)

\* variant: the request is sent a second time
sts_client_call_twice(client, id, op, request) ==
    [calls |-> client.calls + 2,
     awaiting |-> client.awaiting \cup {[id |-> id, op |-> op, request |-> request]}]

\* self.sts_client.<operation>(request): the client receives the request and
\* the calling future (call number id, provider method op) suspends on it
sts_client_call(client, id, op, request) ==
    [calls |-> client.calls + 1,
     awaiting |-> client.awaiting \cup {[id |-> id, op |-> op, request |-> request]}]

\* a provider method is invoked and runs up to its await
Call(p, op, request) ==
    /\ Started < MaxCalls
    /\ invoked' = [invoked EXCEPT ![p] = @ + 1]
    /\ sts_client' = [sts_client EXCEPT ![p] = sts_client_call(@, Started + 1, op, request)]
    /\ UNCHANGED <<ctor, self, mfa_history, returned>>

\* variant: the answer is handed to the longest-waiting future of the
\* provider instead of the one it belongs to
Return_to_oldest(p, e, r, result) ==
    /\ e \in sts_client[p].awaiting
    /\ LET o == CHOOSE x \in sts_client[p].awaiting :
                   \A y \in sts_client[p].awaiting : x.id <= y.id
       IN  returned' = Some([id |-> o.id, provider |-> p, op |-> e.op, request |-> o.request,
                             response |-> r, result |-> result])
    /\ sts_client' = [sts_client EXCEPT ![p].awaiting = @ \ {e}]
    /\ UNCHANGED <<ctor, self, mfa_history, invoked>>

\* the client answers the suspended future e of provider p with r and the
\* method runs to its end, returning result
Return(p, e, r, result) ==
    /\ e \in sts_client[p].awaiting
    /\ sts_client' = [sts_client EXCEPT ![p].awaiting = @ \ {e}]
    /\ returned' = Some([id |-> e.id, provider |-> p, op |-> e.op, request |-> e.request,
                         response |-> r, result |-> result])
    /\ UNCHANGED <<ctor, self, mfa_history, invoked>>

(***************************************************************************)
(* Session-token provider                                                  *)
(***************************************************************************)
\* &mut self: no future borrowing the provider is alive
StsSessionCredentialsProvider_set_mfa_code(p, code) ==
    /\ p \in SessionProviders
    /\ sts_client[p].awaiting = {}
    /\ self' = [self EXCEPT ![p].mfa_code = Some(code)]
    /\ mfa_history' = [mfa_history EXCEPT ![p] = Some(code)]
    /\ UNCHANGED <<ctor, sts_client, invoked, returned>>

StsSessionCredentialsProvider_clear_mfa_code(p) ==
    /\ p \in SessionProviders
    /\ sts_client[p].awaiting = {}
    /\ self' = [self EXCEPT ![p].mfa_code = None]
    /\ mfa_history' = [mfa_history EXCEPT ![p] = None]
    /\ UNCHANGED <<ctor, sts_client, invoked, returned>>

get_session_token_call(p) ==
    /\ p \in SessionProviders
    /\ Call(p, "get_session_token", get_session_token_request(self[p]))

get_session_token_return(p, e, r) ==
    /\ p \in SessionProviders
    /\ e.op = "get_session_token"
    /\ Return(p, e, r, get_session_token(r))

StsSessionCredentialsProvider_credentials_call(p) ==
    /\ p \in SessionProviders
    /\ Call(p, "credentials", get_session_token_request(self[p]))

StsSessionCredentialsProvider_credentials_return(p, e, r) ==
    /\ p \in SessionProviders
    /\ e.op = "credentials"
    /\ Return(p, e, r, StsSessionCredentialsProvider_credentials(get_session_token(r)))

(***************************************************************************)
(* Assume-role provider                                                    *)
(***************************************************************************)
StsAssumeRoleSessionCredentialsProvider_set_mfa_code(p, code) ==
    /\ p \in AssumeRoleProviders
    /\ sts_client[p].awaiting = {}
    /\ self' = [self EXCEPT ![p].mfa_code = Some(code)]
    /\ mfa_history' = [mfa_history EXCEPT ![p] = Some(code)]
    /\ UNCHANGED <<ctor, sts_client, invoked, returned>>

StsAssumeRoleSessionCredentialsProvider_clear_mfa_code(p) ==
    /\ p \in AssumeRoleProviders
    /\ sts_client[p].awaiting = {}
    /\ self' = [self EXCEPT ![p].mfa_code = None]
    /\ mfa_history' = [mfa_history EXCEPT ![p] = None]
    /\ UNCHANGED <<ctor, sts_client, invoked, returned>>

assume_role_call(p) ==
    /\ p \in AssumeRoleProviders
    /\ Call(p, "assume_role", assume_role_request(self[p]))

assume_role_return(p, e, r) ==
    /\ p \in AssumeRoleProviders
    /\ e.op = "assume_role"
    /\ Return(p, e, r, assume_role(r))

StsAssumeRoleSessionCredentialsProvider_credentials_call(p) ==
    /\ p \in AssumeRoleProviders
    /\ Call(p, "credentials", assume_role_request(self[p]))

StsAssumeRoleSessionCredentialsProvider_credentials_return(p, e, r) ==
    /\ p \in AssumeRoleProviders
    /\ e.op = "credentials"
    /\ Return(p, e, r, StsAssumeRoleSessionCredentialsProvider_credentials(assume_role(r)))

(***************************************************************************)
(* Web-identity federation provider                                        *)
(***************************************************************************)
assume_role_with_web_identity_call(p) ==
    /\ p \in WebIdentityProviders
    /\ Call(p, "assume_role_with_web_identity", assume_role_with_web_identity_request(self[p]))

assume_role_with_web_identity_return(p, e, r) ==
    /\ p \in WebIdentityProviders
    /\ e.op = "assume_role_with_web_identity"
    /\ Return(p, e, r, assume_role_with_web_identity(r))

(***************************************************************************)
(* Specification                                                           *)
(***************************************************************************)
Next ==
    \/ \E p \in Providers, code \in MfaCodes : StsSessionCredentialsProvider_set_mfa_code(p, code)
    \/ \E p \in Providers : StsSessionCredentialsProvider_clear_mfa_code(p)
    \/ \E p \in Providers : get_session_token_call(p)
    \/ \E p \in Providers : \E e \in sts_client[p].awaiting, r \in ResultsOf(GetSessionTokenResponses) : get_session_token_return(p, e, r)
    \/ \E p \in Providers : StsSessionCredentialsProvider_credentials_call(p)
    \/ \E p \in Providers : \E e \in sts_client[p].awaiting, r \in ResultsOf(GetSessionTokenResponses) : StsSessionCredentialsProvider_credentials_return(p, e, r)
    \/ \E p \in Providers, code \in MfaCodes : StsAssumeRoleSessionCredentialsProvider_set_mfa_code(p, code)
    \/ \E p \in Providers : StsAssumeRoleSessionCredentialsProvider_clear_mfa_code(p)
    \/ \E p \in Providers : assume_role_call(p)
    \/ \E p \in Providers : \E e \in sts_client[p].awaiting, r \in ResultsOf(AssumeRoleResponses) : assume_role_return(p, e, r)
    \/ \E p \in Providers : StsAssumeRoleSessionCredentialsProvider_credentials_call(p)
    \/ \E p \in Providers : \E e \in sts_client[p].awaiting, r \in ResultsOf(AssumeRoleResponses) : StsAssumeRoleSessionCredentialsProvider_credentials_return(p, e, r)
    \/ \E p \in Providers : assume_role_with_web_identity_call(p)
    \/ \E p \in Providers : \E e \in sts_client[p].awaiting, r \in ResultsOf(AssumeRoleWithWebIdentityResponses) : assume_role_with_web_identity_return(p, e, r)

Spec == Init /\ [][Next]_vars

(***************************************************************************)
(* Vocabulary of the properties                                            *)
(***************************************************************************)
Ret == Unwrap(returned)

HasReturned(P, ops) == returned # None /\ Ret.provider \in P /\ Ret.op \in ops

\* the methods that hand credentials to the caller
FetchOps == {"credentials", "assume_role", "assume_role_with_web_identity"}

\* the remote answer r is a success that carries a credential record
HasPayload(r) == r.ok /\ r.value.credentials # None

Payload(r) == Unwrap(r.value.credentials)

Parses(r) == ParseDateTimeUtc(Payload(r).expiration).ok

\* whole seconds of a millisecond duration d, fraction dropped
WholeSeconds(d) ==
    CHOOSE n \in ((d \div 1000) - 1) .. ((d \div 1000) + 1) :
        \/ d >= 0 /\ n >= 0 /\ n * 1000 <= d /\ d < (n + 1) * 1000
        \/ d < 0 /\ n <= 0 /\ n * 1000 >= d /\ d > (n - 1) * 1000

DurationArg(p) == IF p \in SessionProviders THEN ctor[p].duration ELSE ctor[p].session_duration

\* every request a provider has issued and the model still holds
IssuedRequests(p) ==
    { e.request : e \in sts_client[p].awaiting }
    \cup (IF returned # None /\ Ret.provider = p THEN {Ret.request} ELSE {})

ConfiguredMillis(p) ==
    IF DurationArg(p) # None THEN Unwrap(DurationArg(p))
    ELSE IF p \in AssumeRoleProviders THEN 900 * 1000
    ELSE 3600 * 1000

Prefix == "StsProvider get_session_token error: "

(***************************************************************************)
(* Properties                                                              *)
(***************************************************************************)
\* C1: whenever the session-token or the assume-role provider issues a
\* request, the request carries the serial given at construction, the
\* argument of the latest set_mfa_code unless clear_mfa_code followed it
\* (nothing on a fresh provider), and the configured duration; serial and
\* code do not depend on each other, and issuing leaves the stored code as
\* it was.
C1_MfaCarried ==
    [][\A p \in MfaProviders :
         invoked'[p] # invoked[p] =>
           /\ self'[p].mfa_code = self[p].mfa_code
           /\ sts_client'[p].awaiting \ sts_client[p].awaiting # {}
           /\ \A e \in sts_client'[p].awaiting \ sts_client[p].awaiting :
                /\ e.request.serial_number = ctor[p].mfa_serial
                /\ e.request.token_code = mfa_history[p]
                /\ e.request.duration_seconds = Some(WholeSeconds(ConfiguredMillis(p)))]_vars

\* a call that carried a code has returned, the code was cleared, and the
\* next call on the same provider is in flight without a code
C1_Witness ==
    \E p \in MfaProviders :
        /\ HasReturned({p}, {"get_session_token", "credentials", "assume_role"})
        /\ Ret.request.token_code # None
        /\ mfa_history[p] = None
        /\ \E e \in sts_client[p].awaiting : e.id > Ret.id /\ e.request.token_code = None

C7_AssumeRoleDefaultOneHour ==
    \A p \in AssumeRoleProviders :
        ctor[p].session_duration = None =>
            \A q \in IssuedRequests(p) : q.duration_seconds = Some(3600)

\* the credentials the caller must get from the credential record sc
ExpectedCredentials(sc) ==
    [key |-> sc.access_key_id, secret |-> sc.secret_access_key,
     token |-> Some(sc.session_token),
     expires_at |-> Some(ParseDateTimeUtc(sc.expiration).value),
     claims |-> <<>>]

\* C2: every invocation of a credential-fetching method issues exactly one
\* remote call, whatever its outcome: each client has received as many
\* requests as its provider had invocations, a failure is not retried and an
\* earlier success is not reused, so a returned value is that of the call's
\* own response.
C2_OneRemoteCallPerInvocation ==
    /\ \A p \in Providers :
         /\ sts_client[p].calls = invoked[p]
         /\ Cardinality(sts_client[p].awaiting) <= invoked[p]
    /\ returned # None =>
         /\ Ret.op = "get_session_token" => Ret.result = Ret.response
         /\ Ret.op \in FetchOps =>
              /\ Ret.result.ok <=> (HasPayload(Ret.response) /\ Parses(Ret.response))
              /\ Ret.result.ok =>
                   /\ Ret.result.value.key = Payload(Ret.response).access_key_id
                   /\ Ret.result.value.secret = Payload(Ret.response).secret_access_key

\* two invocations were started, two requests were received, and the latest
\* return was a failure
C2_Witness ==
    /\ Started >= 2
    /\ SumOver([p \in Providers |-> sts_client[p].calls], Providers) = Started
    /\ returned # None
    /\ Ret.op \in FetchOps
    /\ ~Ret.result.ok

\* C3: when the remote call succeeds without a credential record, the
\* credential-fetching method fails with the "no credentials in response"
\* error and returns no credentials, whatever identity fields the
\* web-identity response carries.
C3_MissingCredentials ==
    (returned # None /\ Ret.op \in FetchOps /\ Ret.response.ok
        /\ Ret.response.value.credentials = None) =>
      /\ ~Ret.result.ok
      /\ (Ret.provider \in SessionProviders) =>
            Ret.result.error = [message |-> "no credentials in response"]
      /\ (Ret.provider \in AssumeRoleProviders /\ Ret.op = "credentials") =>
            Ret.result.error =
              [message |-> Prefix \o
                 "Credentials(CredentialsError { message: \"no credentials in response\" })"]
      /\ (Ret.op \in {"assume_role", "assume_role_with_web_identity"}) =>
            Ret.result.error =
              [variant |-> "Credentials", payload |-> "no credentials in response"]

\* the web-identity provider got a response with identity fields and no
\* credential record, and returned an error
C3_Witness ==
    /\ HasReturned(WebIdentityProviders, {"assume_role_with_web_identity"})
    /\ Ret.response.ok
    /\ Ret.response.value.credentials = None
    /\ Ret.response.value.subject_from_web_identity_token # None
    /\ ~Ret.result.ok

\* C4: the converter is total and all-or-nothing: for a record whose
\* expiration parses it gives credentials with the record's keys and token,
\* expires_at equal to the parsed instant and no claims; otherwise it gives
\* a conversion error and no credentials.  Hence all credentials a provider
\* returns have expires_at present.
C4_Converter ==
    /\ (HasReturned(SessionProviders, {"credentials"}) /\ HasPayload(Ret.response)) =>
         IF Parses(Ret.response)
         THEN Ret.result = Ok(ExpectedCredentials(Payload(Ret.response)))
         ELSE /\ ~Ret.result.ok
              /\ Ret.result.error =
                   [message |-> ParseDateTimeUtc(Payload(Ret.response).expiration).error]
    /\ (returned # None /\ Ret.op \in FetchOps /\ Ret.result.ok) =>
         /\ Ret.result.value.expires_at # None
         /\ Ret.result.value.expires_at =
              Some(ParseDateTimeUtc(Payload(Ret.response).expiration).value)

\* credentials() of the session provider converted a record whose expiration
\* is written with a +01:00 offset
C4_Witness ==
    /\ HasReturned(SessionProviders, {"credentials"})
    /\ HasPayload(Ret.response)
    /\ Payload(Ret.response).expiration = "2020-01-01T01:00:00+01:00"
    /\ Ret.result.ok
    /\ Ret.result.value.expires_at = Some(1577836800)

\* C5: the credentials assume_role_with_web_identity returns have one claim
\* per identity field present in the response and no other: "subject" for
\* subject_from_web_identity_token, "audience" for audience, "issuer" for
\* provider; an absent field adds nothing and blocks nothing.
C5_Claims ==
    (HasReturned(WebIdentityProviders, {"assume_role_with_web_identity"}) /\ Ret.result.ok) =>
      LET resp == Ret.response.value
          cl == Ret.result.value.claims
      IN  /\ DOMAIN cl =
                (IF resp.subject_from_web_identity_token # None THEN {"subject"} ELSE {})
                \cup (IF resp.audience # None THEN {"audience"} ELSE {})
                \cup (IF resp.provider # None THEN {"issuer"} ELSE {})
          /\ resp.subject_from_web_identity_token # None =>
                cl["subject"] = Unwrap(resp.subject_from_web_identity_token)
          /\ resp.audience # None => cl["audience"] = Unwrap(resp.audience)
          /\ resp.provider # None => cl["issuer"] = Unwrap(resp.provider)

\* a response with subject and issuer and without audience gave exactly the
\* two claims
C5_Witness ==
    /\ HasReturned(WebIdentityProviders, {"assume_role_with_web_identity"})
    /\ Ret.result.ok
    /\ Ret.response.value.audience = None
    /\ DOMAIN Ret.result.value.claims = {"subject", "issuer"}

\* the Debug text of what made assume_role fail on the remote answer r
CauseText(r) ==
    IF ~r.ok
    THEN r.error.variant \o "(" \o r.error.payload \o ")"
    ELSE "Credentials(CredentialsError { message: \""
         \o (IF r.value.credentials = None
             THEN "no credentials in response"
             ELSE ParseDateTimeUtc(Payload(r).expiration).error)
         \o "\" })"

\* C8: assume_role hands a remote error back as received; credentials() of
\* the assume-role provider fails exactly when assume_role fails, then with
\* one CredentialsError whose message is the formatted description of the
\* cause (remote failure, missing credential record, conversion failure),
\* and on success returns the credentials assume_role produced.
C8_AssumeRoleErrors ==
    /\ (HasReturned(AssumeRoleProviders, {"assume_role"}) /\ ~Ret.response.ok) =>
         Ret.result = Err(Ret.response.error)
    /\ HasReturned(AssumeRoleProviders, {"credentials"}) =>
         /\ Ret.result.ok <=> (HasPayload(Ret.response) /\ Parses(Ret.response))
         /\ Ret.result.ok => Ret.result = Ok(ExpectedCredentials(Payload(Ret.response)))
         /\ ~Ret.result.ok =>
              Ret.result.error = [message |-> Prefix \o CauseText(Ret.response)]

\* credentials() of the assume-role provider returned the wrapped
\* description of a remote service error
C8_Witness ==
    /\ HasReturned(AssumeRoleProviders, {"credentials"})
    /\ ~Ret.response.ok
    /\ Ret.response.error.variant = "Service"
    /\ Ret.result =
         Err([message |-> "StsProvider get_session_token error: Service(RegionDisabled(\"STS is not activated\"))"])

\* C9: the web-identity provider offers credentials() of the generic
\* contract like the other two providers, and what its fetch returns is a
\* Result<AwsCredentials, CredentialsError>, the same as
\* assume_role_with_web_identity gives.
C9_WebIdentityProvidesCredentials ==
    HasReturned(WebIdentityProviders, {"assume_role_with_web_identity"}) =>
        /\ Ret.provider \in ProvideAwsCredentials
        /\ ~Ret.result.ok => DOMAIN Ret.result.error = {"message"}

\* the model's record of what provider p asks for, from its constructor
\* arguments and the MFA code its owner last left in it
ExpectedRequest(p) ==
    IF p \in SessionProviders
    THEN [serial_number |-> ctor[p].mfa_serial,
          token_code |-> mfa_history[p],
          duration_seconds |-> Some(WholeSeconds(ConfiguredMillis(p)))]
    ELSE IF p \in AssumeRoleProviders
    THEN [role_arn |-> ctor[p].role_arn,
          role_session_name |-> ctor[p].session_name,
          duration_seconds |-> Some(WholeSeconds(ConfiguredMillis(p))),
          external_id |-> ctor[p].external_id,
          policy |-> ctor[p].scope_down_policy,
          serial_number |-> ctor[p].mfa_serial,
          token_code |-> mfa_history[p],
          policy_arns |-> None, tags |-> None, transitive_tag_keys |-> None]
    ELSE [web_identity_token |-> ctor[p].wif_token,
          provider_id |-> ctor[p].wif_provider,
          role_arn |-> ctor[p].role_arn,
          role_session_name |-> ctor[p].session_name,
          duration_seconds |-> Some(WholeSeconds(ConfiguredMillis(p))),
          policy |-> ctor[p].scope_down_policy,
          policy_arns |-> None]

AllAwaiting == UNION { sts_client[p].awaiting : p \in Providers }

\* C10: calls in flight at the same time on one provider each have their own
\* request, all built from the same unchanged configuration; a call that
\* returns, in whatever order, returns what its own response determines;
\* and a provider's fields and client are touched by its own owner only.
C10_ConcurrentCalls ==
    /\ \A p \in Providers :
         /\ \A e \in sts_client[p].awaiting : e.request = ExpectedRequest(p)
         /\ \A e1, e2 \in sts_client[p].awaiting : e1.id = e2.id => e1 = e2
         /\ \A q \in Providers \ {p} :
              \A e1 \in sts_client[p].awaiting, e2 \in sts_client[q].awaiting : e1.id # e2.id
         /\ p \in MfaProviders => self[p].mfa_code = mfa_history[p]
    /\ returned # None =>
         /\ \A e \in AllAwaiting : e.id # Ret.id
         /\ Ret.op = "get_session_token" => Ret.result = Ret.response
         /\ Ret.op \in FetchOps =>
              IF HasPayload(Ret.response) /\ Parses(Ret.response)
              THEN /\ Ret.result.ok
                   /\ [Ret.result.value EXCEPT !.claims = <<>>]
                        = ExpectedCredentials(Payload(Ret.response))
              ELSE ~Ret.result.ok

\* two calls were in flight on one provider and the later one returned
\* first
C10_Witness ==
    \E p \in Providers :
        /\ returned # None
        /\ Ret.provider = p
        /\ Ret.op \in FetchOps
        /\ \E e \in sts_client[p].awaiting : e.id < Ret.id /\ e.request = Ret.request

====
